---- MODULE Spec2Model ----
(***************************************************************************)
(* The grounding service of python/grounding_service: the per-session      *)
(* screenshot cache, the background text detection started by every        *)
(* ingest, resolve by text match and by the vision model, the lazily       *)
(* constructed vision model and its inference lock.                        *)
(*                                                                         *)
(* GroundingService is an object of coroutines on one asyncio event loop:  *)
(* the code between two awaits runs atomically, so every action below is   *)
(* one such segment.  Spec lets any number of callers be inside the        *)
(* service at once; SpecMain is the service behind main()'s request loop,  *)
(* which awaits each handler before it reads the next line.                *)
(***************************************************************************)
EXTENDS Integers, Sequences, FiniteSets, TLC

\* ------------------------------------------------------------------ bounds
\* Number of requests (ingest or resolve calls) made to the service.
MaxCalls == 3

Calls == 1..MaxCalls

\* Longest list of regions resolve_ocr_text is called with on its own.
MaxRegions == 2

\* ------------------------------------------------------------------ inputs
Keys == {"s1", "s2"}

\* Encoded screenshots.  A1 and A2 are different images that agree on their
\* first 1024 characters; B differs from both inside that prefix.
Images == {"A1", "A2", "B"}

\* screenshot_b64[:1024]
Sample(img) == CASE img = "A1" -> "pa" [] img = "A2" -> "pa" [] OTHER -> "pb"

\* hashlib.sha256(sample).hexdigest()[:16]: a function of the sample alone,
\* distinct on the samples of Images.
Sha16(sample) == CASE sample = "pa" -> "h_pa" [] OTHER -> "h_pb"

\* Caller-supplied screenshot ids; "" stands for an absent (None or empty) id.
ExtIds == {"", "x"}

\* ocr_text values: None/"" (both become ""), and " Ok" which lower().strip()
\* turns into "ok".  Texts are sequences of characters.
OcrTexts == {<< >>, <<" ", "O", "k">>}

\* description values: "" stands for None or "".
Descriptions == {"", "button"}

Methods == {"ocr", "prediction", "other"}

\* model_name values: "" stands for None or "".  DefaultModel is the name
\* _ensure_vision resolves those to.
ModelNames == {"", "m2"}
DefaultModel == "OpenGVLab/InternVL3_5-4B"

\* ocr_match_threshold in thousandths; NoThreshold stands for None.
NoThreshold == -1
Thresholds == {NoThreshold, 500}

\* The default of ocr_match_threshold, 0.8, in thousandths.
DefaultThreshold == 800

\* ocr_wait_timeout_ms: 0 stands for None or 0 (both falsy), 50 for a timeout.
Timeouts == {0, 50}

\* A workload: the values the requests of one specification are drawn from,
\* and whether they come through main()'s loop (serial) or from callers that
\* may be inside the service at the same time.
Workload(keys, images, extids, timeouts, methods, texts, thresholds, serial) ==
  [keys |-> keys, images |-> images, extids |-> extids, timeouts |-> timeouts,
   methods |-> methods, texts |-> texts, descriptions |-> Descriptions,
   thresholds |-> thresholds, serial |-> serial, model_names |-> {""}]

\* ------------------------------------------------------------- optionals
\* Optional[T] is a sequence of length 0 (None) or 1.
None == << >>
Some(v) == <<v>>
IsNone(o) == Len(o) = 0
The(o) == o[1]

\* ---------------------------------------------------------- text detector
\* The stub detector: OcrEngine._analyze_sync as a function of the image
\* bytes.  A region is {text, bbox{x, y, width, height}}.
Region(t, x, y, w, h) == [text |-> t, x |-> x, y |-> y, width |-> w, height |-> h]

\* What the engine reads in each image (texts, boxes as x, y, width, height).
EngineResult(img) ==
  CASE img = "A1" -> << Region(<<"O", "K">>, 10, 20, 40, 10) >>
    [] img = "A2" -> << Region(<<"o", "k">>, 200, 300, 41, 11) >>
    [] OTHER      -> << Region(<<"n", "o">>, 0, 0, 10, 10),
                        Region(<<"o", "k", " ">>, 500, 400, 7, 9) >>

\* ------------------------------------------------------- fuzzy text match
\* str.lower() and str.strip() on the model's alphabet.
LowerChar(ch) == CASE ch = "O" -> "o" [] ch = "K" -> "k" [] ch = "N" -> "n" [] OTHER -> ch

Lower(s) == [i \in 1..Len(s) |-> LowerChar(s[i])]

RECURSIVE LStrip(_)
LStrip(s) == IF s # << >> /\ Head(s) = " " THEN LStrip(Tail(s)) ELSE s

RECURSIVE RStrip(_)
RStrip(s) == IF s # << >> /\ s[Len(s)] = " " THEN RStrip(SubSeq(s, 1, Len(s) - 1)) ELSE s

Strip(s) == RStrip(LStrip(s))

\* OcrEngine._analyze_sync: the engine's regions, each text stripped.
AnalyzeSync(img) ==
  [i \in 1..Len(EngineResult(img)) |->
     [EngineResult(img)[i] EXCEPT !.text = Strip(EngineResult(img)[i].text)]]

\* OcrEngine.analyze over the screenshots of the workloads: what the
\* executor's call returns for each.
analyze == [img \in Images |-> AnalyzeSync(img)]

\* Length of the common run of a[i..ahi] and b[j..bhi] (1-based, inclusive).
RECURSIVE RunLen(_, _, _, _, _, _)
RunLen(a, b, i, j, ahi, bhi) ==
  IF i > ahi \/ j > bhi \/ a[i] # b[j] THEN 0
  ELSE 1 + RunLen(a, b, i + 1, j + 1, ahi, bhi)

\* The best block among the first n start pairs (i, j) of a[alo..ahi] and
\* b[blo..bhi], taken in the order of i, then of j: a later pair replaces the
\* best so far only with a strictly longer block.
RECURSIVE ScanMatch(_, _, _, _, _, _, _)
ScanMatch(a, b, alo, ahi, blo, bhi, n) ==
  IF n = 0 THEN <<alo, blo, 0>>
  ELSE LET prev == ScanMatch(a, b, alo, ahi, blo, bhi, n - 1)
           i == alo + ((n - 1) \div (bhi - blo + 1))
           j == blo + ((n - 1) % (bhi - blo + 1))
           k == RunLen(a, b, i, j, ahi, bhi)
       IN IF k > prev[3] THEN <<i, j, k>> ELSE prev

\* SequenceMatcher.find_longest_match without junk: the longest block, of those
\* the one starting earliest in a, of those the one starting earliest in b.
FindLongestMatch(a, b, alo, ahi, blo, bhi) ==
  ScanMatch(a, b, alo, ahi, blo, bhi, (ahi - alo + 1) * (bhi - blo + 1))

\* Sum of the sizes of SequenceMatcher.get_matching_blocks.
RECURSIVE MatchCount(_, _, _, _, _, _)
MatchCount(a, b, alo, ahi, blo, bhi) ==
  IF alo > ahi \/ blo > bhi THEN 0
  ELSE LET m == FindLongestMatch(a, b, alo, ahi, blo, bhi)
       IN IF m[3] = 0 THEN 0
          ELSE m[3] + MatchCount(a, b, alo, m[1] - 1, blo, m[2] - 1)
                    + MatchCount(a, b, m[1] + m[3], ahi, m[2] + m[3], bhi)

\* SequenceMatcher(None, a, b).ratio() as the fraction <<num, den>>:
\* 2.0 * matches / (len(a) + len(b)), and 1.0 when both are empty.
Ratio(a, b) ==
  IF Len(a) + Len(b) = 0 THEN <<1, 1>>
  ELSE <<2 * MatchCount(a, b, 1, Len(a), 1, Len(b)), Len(a) + Len(b)>>

\* Variant: a comparison that also holds of equal scores.
FracAtLeast(p, q) == p[1] * q[2] >= q[1] * p[2]

FracGT(p, q) == p[1] * q[2] > q[1] * p[2]
FracGE(p, q) == p[1] * q[2] >= q[1] * p[2]

\* The loop of resolve_ocr_text: <<best, best_score>> after the first n items.
RECURSIVE BestMatch(_, _, _)
BestMatch(target, ocr_results, n) ==
  IF n = 0 THEN <<None, <<0, 1>>>>
  ELSE LET prev  == BestMatch(target, ocr_results, n - 1)
           item  == ocr_results[n]
           score == Ratio(target, Strip(Lower(item.text)))
       IN IF FracGT(score, prev[2]) THEN <<Some(item), score>> ELSE prev

\* Variant: half of n, rounded to the nearest integer.
RoundedHalf(n) == (n + 1) \div 2

\* n // 2.
FloorHalf(n) == n \div 2

\* resolve_ocr_text: [kind |-> "ok", x, y] or [kind |-> "error", err].
Outcome(kind, err, x, y) == [kind |-> kind, err |-> err, x |-> x, y |-> y]

resolve_ocr_text(text, ocr_results, threshold) ==
  IF text = << >> THEN Outcome("error", "InvalidArgument", 0, 0)
  ELSE LET bm == BestMatch(Strip(Lower(text)), ocr_results, Len(ocr_results))
       IN IF ~IsNone(bm[1]) /\ FracGE(bm[2], <<threshold, 1000>>)
          THEN Outcome("ok", "", The(bm[1]).x + FloorHalf(The(bm[1]).width),
                                 The(bm[1]).y + FloorHalf(The(bm[1]).height))
          ELSE Outcome("error", "NoMatch", 0, 0)

\* ------------------------------------------------------------ vision model
\* Pixel size of each image (Image.open(...).size).
ImageSize(img) == IF img = "B" THEN <<640, 480>> ELSE <<1000, 800>>

\* The point the model's answer parses to, in the 0..1000 space; None when
\* the answer holds neither pattern (or the prediction raised).
VisionAnswers == {None, Some(<<500, 500>>)}

Min(a, b) == IF a < b THEN a ELSE b
Max(a, b) == IF a > b THEN a ELSE b

\* The (norm, dimension) pairs of the model's inputs for which the double
\* (norm / 1000.0) * dimension is just below the exact product, an integer:
\* 290 / 1000.0 is 0.28999999999999998, and times 100 or 800 rounds to
\* 28.999999999999996 and 231.99999999999997.
RoundedBelow == {<<290, 100>>, <<290, 800>>}

\* math.floor((norm / 1000.0) * dimension), in doubles as the code computes it.
FloorOfProduct(norm, dimension) ==
  ((norm * dimension) \div 1000) - (IF <<norm, dimension>> \in RoundedBelow THEN 1 ELSE 0)

\* max(0, min(dimension - 1, px)).
Clamp(px, dimension) == Max(0, Min(dimension - 1, px))

scale_norm_to_pixels(x_norm, y_norm, width, height) ==
  << Clamp(FloorOfProduct(x_norm, width), width),
     Clamp(FloorOfProduct(y_norm, height), height) >>

\* InternVLModel._predict_sync: Optional[(x, y)].
PredictSync(img, answer) ==
  IF IsNone(answer) THEN None
  ELSE Some(scale_norm_to_pixels(The(answer)[1], The(answer)[2],
                                 ImageSize(img)[1], ImageSize(img)[2]))

\* ----------------------------------------------------------- answer parsing
\* coordinates.py: the answer of the model is a sequence of characters, and
\* the two patterns are matched on it as re matches them.  Numbers are kept
\* in tenths (float("900.5") is 9005 tenths) and points in twentieths, the
\* unit in which the centre (x1 + x2) / 2.0 of two such numbers is whole;
\* no answer below has a number with more than one digit after the point.
Digits == {"0", "1", "2", "3", "4", "5", "6", "7", "8", "9"}
Whitespace == {" "}

DigitValue == [d \in Digits |-> CHOOSE n \in 0..9 : ToString(n) = d]

\* text[i], "" behind the end.
At(text, i) == IF i \in 1..Len(text) THEN text[i] ELSE ""

\* F(v), with v evaluated once.
Bind(v, F(_)) == CHOOSE r \in {F(x) : x \in {v}} : TRUE

\* The first index from i on whose character is not in class (a greedy
\* class* or class+ ends there; the character that follows is in no class
\* that was skipped, so backtracking never gives another match).
Skip(text, i, class) ==
  CHOOSE j \in i..(Len(text) + 1) :
    /\ At(text, j) \notin class
    /\ \A k \in i..(j - 1) : At(text, k) \in class

\* _NUM = (\d+(?:\.\d+)?) at i: the index behind the group, i when there is
\* no match.
NumEnd(text, i) ==
  Bind(Skip(text, i, Digits), LAMBDA d :
    IF d > i /\ At(text, d) = "."
    THEN Bind(Skip(text, d + 1, Digits), LAMBDA e : IF e > d + 1 THEN e ELSE d)
    ELSE d)

\* int() of the digits text[a..b-1].
RECURSIVE IntOf(_, _, _)
IntOf(text, a, b) ==
  IF b <= a THEN 0 ELSE 10 * IntOf(text, a, b - 1) + DigitValue[text[b - 1]]

\* float() of the group text[a..b-1], in tenths.
FloatOf(text, a, b) ==
  Bind(Skip(text, a, Digits), LAMBDA d :
    10 * IntOf(text, a, d) + (IF d < b THEN DigitValue[text[d + 1]] ELSE 0))

NoMatch == [ok |-> FALSE, groups |-> << >>, end |-> 0]

\* The match so far with one more group in front.
WithGroup(value, rest) ==
  IF rest.ok THEN [rest EXCEPT !.groups = <<value>> \o @] ELSE NoMatch

\* \s* _NUM, then \s*,\s* _NUM ... for n numbers in all, then \s*\]\] from
\* index i on: the values of the groups and the index behind the match.
RECURSIVE Numbers(_, _, _)
Numbers(text, i, n) ==
  Bind(Skip(text, i, Whitespace), LAMBDA a :
    Bind(NumEnd(text, a), LAMBDA b :
      IF b = a THEN NoMatch
      ELSE Bind(Skip(text, b, Whitespace), LAMBDA c :
             IF n = 1
             THEN IF At(text, c) = "]" /\ At(text, c + 1) = "]"
                  THEN [ok |-> TRUE, groups |-> <<FloatOf(text, a, b)>>, end |-> c + 2]
                  ELSE NoMatch
             ELSE IF At(text, c) # "," THEN NoMatch
                  ELSE Bind(Numbers(text, c + 1, n - 1), LAMBDA rest :
                         WithGroup(FloatOf(text, a, b), rest)))))

\* pattern.match(text, i) for the pattern of n numbers: \[\[ then Numbers.
MatchAt(text, i, n) ==
  IF At(text, i) = "[" /\ At(text, i + 1) = "[" THEN Numbers(text, i + 2, n)
  ELSE NoMatch

\* pattern.search(text, pos): the match at the least index from pos on.
Search(text, pos, n) ==
  Bind({i \in pos..Len(text) : MatchAt(text, i, n).ok}, LAMBDA starts :
    IF starts = {} THEN NoMatch
    ELSE MatchAt(text, CHOOSE i \in starts : \A j \in starts : i <= j, n))

\* list(pattern.finditer(text))[-1] from pos on: each search resumes behind
\* the match before it; NoMatch for an empty list.
RECURSIVE LastOfFindIter(_, _, _)
LastOfFindIter(text, pos, n) ==
  Bind(Search(text, pos, n), LAMBDA m :
    IF ~m.ok THEN NoMatch
    ELSE Bind(LastOfFindIter(text, m.end, n), LAMBDA later :
           IF later.ok THEN later ELSE m))

\* extract_first_point: Optional[(x, y)], in tenths.
extract_first_point(text) ==
  Bind(Search(text, 1, 2), LAMBDA match :
    IF ~match.ok THEN None ELSE Some(match.groups))

\* Variant: the bounding box matched first.
extract_first_bbox(text) ==
  Bind(Search(text, 1, 4), LAMBDA match :
    IF ~match.ok THEN None ELSE Some(match.groups))

\* extract_last_bbox: Optional[(x1, y1, x2, y2)], in tenths.
extract_last_bbox(text) ==
  Bind(LastOfFindIter(text, 1, 4), LAMBDA match :
    IF ~match.ok THEN None ELSE Some(match.groups))

\* _predict_sync from output_text on, up to the point it scales:
\* Optional[(x_norm, y_norm)], in twentieths.
AnswerPoint(output_text) ==
  IF output_text = << >> THEN None
  ELSE Bind(extract_first_point(output_text), LAMBDA point :
         IF ~IsNone(point) THEN Some(<<2 * The(point)[1], 2 * The(point)[2]>>)
         ELSE Bind(extract_last_bbox(output_text), LAMBDA bbox :
                IF IsNone(bbox) THEN None
                ELSE Some(<<The(bbox)[1] + The(bbox)[3],
                            The(bbox)[2] + The(bbox)[4]>>)))

\* scale_norm_to_pixels on a point in twentieths.  For the answers below the
\* double (norm / 1000.0) * dimension has the floor of the exact product.
ScalePoint(point, width, height) ==
  << Clamp((point[1] * width) \div 20000, width),
     Clamp((point[2] * height) \div 20000, height) >>

\* The pieces the answers are put together from: point patterns, bounding-box
\* patterns, and text that is neither (three numbers, a bracket missing, a
\* sign, a lone bracket).  nums are the numbers of a pattern, in tenths.
Fragments ==
  [ P1 |-> [kind |-> "point", nums |-> <<5000, 2500>>,
            text |-> <<"[", "[", "5", "0", "0", ",", "2", "5", "0", "]", "]">>],
     P2 |-> [kind |-> "point", nums |-> <<1000, 9005>>,
            text |-> <<"[", "[", " ", "1", "0", "0", " ", ",", " ", "9", "0", "0", ".", "5", " ", "]", "]">>],
     B1 |-> [kind |-> "bbox", nums |-> <<1000, 2000, 3000, 4000>>,
            text |-> <<"[", "[", "1", "0", "0", ",", "2", "0", "0", ",", "3", "0", "0", ",", "4", "0", "0", "]", "]">>],
     B2 |-> [kind |-> "bbox", nums |-> <<0, 0, 1250, 510>>,
            text |-> <<"[", "[", "0", ",", " ", "0", ",", " ", "1", "2", "5", ",", " ", "5", "1", "]", "]">>],
     T1 |-> [kind |-> "text", nums |-> <<>>,
            text |-> <<"o", "k", " ">>],
     T2 |-> [kind |-> "text", nums |-> <<>>,
            text |-> <<"[", "[", "1", ",", "2", ",", "3", "]", "]">>],
     T3 |-> [kind |-> "text", nums |-> <<>>,
            text |-> <<"[", "[", "7", ",", "8", "]">>],
     T4 |-> [kind |-> "text", nums |-> <<>>,
            text |-> <<"[", "[", "-", "5", ",", "6", "]", "]">>],
     T5 |-> [kind |-> "text", nums |-> <<>>,
            text |-> <<"[">>] ]

FragmentNames == DOMAIN Fragments

MaxFragments == 3

RECURSIVE SeqsUpTo(_, _)
SeqsUpTo(S, n) ==
  IF n = 0 THEN {<< >>}
  ELSE LET shorter == SeqsUpTo(S, n - 1)
       IN shorter \cup {Append(q, x) : q \in shorter, x \in S}

\* An answer is a sequence of at most MaxFragments fragments.
AnswerParts == SeqsUpTo(FragmentNames, MaxFragments)

\* The characters of an answer.
RECURSIVE AnswerText(_)
AnswerText(parts) ==
  IF parts = << >> THEN << >>
  ELSE Fragments[Head(parts)].text \o AnswerText(Tail(parts))

\* --------------------------------------------------------------- transport
\* JsonRpcProtocol of the two servers, and the body of main's loop.  A line
\* is blank, not JSON ("invalid"), JSON that is not an object ("value"), or
\* an object with the fields jsonrpc, id, method and params, each None when
\* it is absent.  params is "empty" ({} and every other falsy value),
\* "object" (a dict with keys) or "array" (a value that is not a dict).
Servers == {"grounding_service", "computer_exec"}
Line(kind, jsonrpc, id, method, params) ==
  [kind |-> kind, jsonrpc |-> jsonrpc, id |-> id, method |-> method, params |-> params]
BlankLine == Line("blank", None, None, None, None)
RequestIds == {None, Some("7"), Some("a")}
Lines ==
  {BlankLine, [BlankLine EXCEPT !.kind = "invalid"], [BlankLine EXCEPT !.kind = "value"]}
    \cup {Line("object", jsonrpc, id, method, params) :
            jsonrpc \in {None, Some("1.0"), Some("2.0")},
            id \in RequestIds,
            method \in {None, Some(""), Some("status"), Some("resolve"),
                        Some("act"), Some("nope")},
            params \in {None, Some("empty"), Some("object"), Some("array")}}

\* The JSON-RPC error codes the servers send.
ParseErrorCode == -32700
InvalidRequestCode == -32600
MethodNotFoundCode == -32601
InvalidParamsCode == -32602
InternalErrorCode == -32603

\* A response: the members "result" and "error" of the object sent, None
\* when the object has no such member.
RpcResponse(id, result, error) == [id |-> id, result |-> result, error |-> error]

\* JsonRpcProtocol._error.
RpcError(request_id, code, message) ==
  RpcResponse(request_id, None, Some([code |-> code, message |-> message]))

\* What handler(**params) does: it returns, or raises an exception e with
\* str(e) = text.
Returned == [kind |-> "returned", text |-> ""]
Raised(text) == [kind |-> "raised", text |-> text]

\* The handlers main registers, by the method's name, and what each can do
\* with the keyword arguments it is called with.
Handlers(server) ==
  IF server = "grounding_service" THEN {"status", "ingest_screenshot", "resolve"}
  ELSE {"status", "snapshot", "act"}

HandlerOutcomes(server, method, params) ==
  IF method = "status"
  THEN IF params = "object" THEN {Raised("got an unexpected keyword argument")}
       ELSE {Returned}
  ELSE IF params = "empty"
  THEN IF server = "grounding_service"
       THEN {Raised("missing required positional arguments")}
       ELSE IF method = "act" THEN {Raised("kind required")}
       ELSE {Returned, Raised("capture failed")}
  ELSE {Returned, Raised("No screenshot available for this session"), Raised("")}

\* Variant: a lookup that finds a handler under every name.
AlwaysRegistered(server, method) == TRUE

\* handler = self.methods.get(method); if not handler.
Registered(server, method) == method \in Handlers(server)

\* payload.get("params") or {}.
ParamsOrEmpty(params) == IF IsNone(params) THEN "empty" ELSE The(params)

\* JsonRpcProtocol.handle(payload), the handler doing outcome.
handle(server, payload, outcome) ==
  IF payload.jsonrpc # Some("2.0")
  THEN RpcError(payload.id, InvalidRequestCode, "Invalid JSON-RPC version")
  ELSE IF IsNone(payload.method) \/ payload.method = Some("")
  THEN RpcError(payload.id, InvalidRequestCode, "Method required")
  ELSE IF ~Registered(server, The(payload.method))
  THEN RpcError(payload.id, MethodNotFoundCode, "Method not found")
  ELSE IF ParamsOrEmpty(payload.params) = "array"
  THEN RpcError(payload.id, InvalidParamsCode, "Params must be an object")
  ELSE IF outcome.kind = "returned"
  THEN RpcResponse(payload.id, Some("result"), None)
  ELSE RpcError(payload.id, InternalErrorCode, outcome.text)

\* The handler's outcomes for a payload; handle calls it only after its
\* four tests.
Called(server, payload) ==
  /\ payload.jsonrpc = Some("2.0")
  /\ ~IsNone(payload.method) /\ payload.method # Some("")
  /\ Registered(server, The(payload.method))
  /\ ParamsOrEmpty(payload.params) # "array"

NotCalled == [kind |-> "none", text |-> ""]

OutcomesOf(server, payload) ==
  IF Called(server, payload)
  THEN HandlerOutcomes(server, The(payload.method), ParamsOrEmpty(payload.params))
  ELSE {NotCalled}

\* One pass of main's loop over a line.
NoRpcCall == [state |-> "none", server |-> "grounding_service", line |-> BlankLine,
              outcome |-> NotCalled, sent |-> None]

\* ------------------------------------------------------------------ tiling
\* _dynamic_preprocess's default image_size.
ImageTileSize == 448

\* sorted(target_ratios, key=lambda x: x[0] * x[1]): the grids (i, j) with
\* 1 <= i * j <= 12 by number of tiles, grids of equal number in the order
\* in which CPython iterates the set.
TargetRatios ==
  <<
     <<1, 1>>, <<1, 2>>, <<2, 1>>, <<3, 1>>, <<1, 3>>, <<2, 2>>, <<4, 1>>,
     <<1, 4>>, <<5, 1>>, <<1, 5>>, <<1, 6>>, <<6, 1>>, <<3, 2>>, <<2, 3>>,
     <<7, 1>>, <<1, 7>>, <<4, 2>>, <<2, 4>>, <<1, 8>>, <<8, 1>>, <<1, 9>>,
     <<3, 3>>, <<9, 1>>, <<2, 5>>, <<5, 2>>, <<10, 1>>, <<1, 10>>, <<11, 1>>,
     <<1, 11>>, <<12, 1>>, <<3, 4>>, <<4, 3>>, <<1, 12>>, <<6, 2>>, <<2, 6>>
  >>

Abs(n) == IF n < 0 THEN 0 - n ELSE n

\* abs(aspect_ratio - ratio[0] / ratio[1]) as a fraction of the image's
\* height: <<|width * j - i * height|, j>>.
RatioDiff(width, height, ratio) ==
  <<Abs(width * ratio[2] - ratio[1] * height), ratio[2]>>

\* <<p, q, a, b>>: for an image with width / height = p / q the grids a and b
\* are equally far from the aspect ratio, but the doubles
\* abs(aspect_ratio - a[0] / a[1]) and abs(aspect_ratio - b[0] / b[1]) differ,
\* the first being the smaller: for 700 x 600 they are 0.16666666666666652
\* for (4, 3) and 0.16666666666666674 for (1, 1).  These are all such cases
\* among the image sizes below; on them the doubles order every other pair
\* of grids as the exact differences do.
RoundedApart ==
  {
     <<1, 1, <<4, 3>>, <<2, 3>>>>,
     <<1, 2, <<2, 3>>, <<1, 3>>>>,
     <<1, 2, <<2, 3>>, <<2, 6>>>>,
     <<1, 3, <<1, 6>>, <<1, 2>>>>,
     <<1, 3, <<1, 6>>, <<2, 4>>>>,
     <<1, 4, <<1, 3>>, <<1, 6>>>>,
     <<1, 4, <<1, 10>>, <<2, 5>>>>,
     <<1, 4, <<2, 6>>, <<1, 6>>>>,
     <<4, 5, <<3, 2>>, <<1, 10>>>>,
     <<5, 12, <<1, 2>>, <<1, 3>>>>,
     <<5, 12, <<1, 2>>, <<2, 6>>>>,
     <<5, 12, <<2, 3>>, <<1, 6>>>>,
     <<5, 12, <<2, 4>>, <<1, 3>>>>,
     <<5, 12, <<2, 4>>, <<2, 6>>>>,
     <<5, 12, <<3, 4>>, <<1, 12>>>>,
     <<5, 48, <<1, 8>>, <<1, 12>>>>,
     <<7, 6, <<2, 1>>, <<1, 3>>>>,
     <<7, 6, <<2, 1>>, <<2, 6>>>>,
     <<7, 6, <<4, 2>>, <<1, 3>>>>,
     <<7, 6, <<4, 2>>, <<2, 6>>>>,
     <<7, 6, <<4, 3>>, <<1, 1>>>>,
     <<7, 6, <<4, 3>>, <<2, 2>>>>,
     <<7, 6, <<4, 3>>, <<3, 3>>>>,
     <<7, 10, <<2, 5>>, <<1, 1>>>>,
     <<7, 10, <<2, 5>>, <<2, 2>>>>,
     <<7, 10, <<2, 5>>, <<3, 3>>>>,
     <<16, 5, <<6, 1>>, <<2, 5>>>>,
     <<25, 56, <<3, 4>>, <<1, 7>>>>
  }

\* ratio_diff of grid a < ratio_diff of grid b, in doubles.
DiffLess(width, height, a, b) ==
  \/ FracGT(RatioDiff(width, height, b), RatioDiff(width, height, a))
  \/ \E e \in RoundedApart : width * e[2] = height * e[1] /\ e[3] = a /\ e[4] = b

\* The loop over target_ratios. best_ratio_diff starts at inf and only
\* decreases (ratio_diff < best_ratio_diff), so it is last assigned at the
\* first grid of least difference.
FirstLeast(width, height) ==
  CHOOSE k \in 1..Len(TargetRatios) :
    \A m \in 1..Len(TargetRatios) :
      IF m < k THEN DiffLess(width, height, TargetRatios[k], TargetRatios[m])
      ELSE ~DiffLess(width, height, TargetRatios[m], TargetRatios[k])

\* The elif branch: a later grid of the same difference replaces best_ratio
\* when area > 0.5 * image_size * image_size * ratio[0] * ratio[1].
Replaces(width, height, n) ==
  LET least == TargetRatios[FirstLeast(width, height)]
      ratio == TargetRatios[n]
  IN /\ n > FirstLeast(width, height)
     /\ ~DiffLess(width, height, ratio, least)
     /\ ~DiffLess(width, height, least, ratio)
     /\ 2 * width * height > ImageTileSize * ImageTileSize * ratio[1] * ratio[2]

\* best_ratio when the loop ends: the last grid that was assigned to it.
BestRatio(width, height) ==
  LET assigned == {FirstLeast(width, height)}
                    \cup {n \in 1..Len(TargetRatios) : Replaces(width, height, n)}
  IN TargetRatios[CHOOSE n \in assigned : \A m \in assigned : m <= n]

\* Variant: a thumbnail after every tiling.
AlwaysThumbnail(n) == TRUE

\* use_thumbnail and len(processed_images) != 1, with n images so far.
AddsThumbnail(n) == n # 1

\* A tile: the crop box in the resized image; the thumbnail is the whole
\* image resized to image_size x image_size.
Tile(kind, box) == [kind |-> kind, box |-> box]

\* _dynamic_preprocess for an image of width x height: the grid chosen and
\* the images returned.
dynamic_preprocess(width, height) ==
  LET best_ratio == BestRatio(width, height)
      target_width == ImageTileSize * best_ratio[1]
      blocks == best_ratio[1] * best_ratio[2]
      cols == target_width \div ImageTileSize
      processed_images ==
        [n \in 1..blocks |->
           Tile("tile", << ((n - 1) % cols) * ImageTileSize,
                           ((n - 1) \div cols) * ImageTileSize,
                           (((n - 1) % cols) + 1) * ImageTileSize,
                           (((n - 1) \div cols) + 1) * ImageTileSize >>)]
  IN [grid |-> best_ratio,
      images |-> IF AddsThumbnail(Len(processed_images))
                 THEN Append(processed_images,
                             Tile("thumbnail", <<0, 0, ImageTileSize, ImageTileSize>>))
                 ELSE processed_images]

\* ------------------------------------------------------------------- state
VARIABLES
  OCR_AVAILABLE,            \* module flag: the detector's import succeeded
  VISION_MODELS_AVAILABLE,  \* module flag: the vision dependencies imported
  sessions,                 \* GroundingService._sessions: key -> SessionCache
  vision_model,             \* GroundingService._vision_model: 0 is None, else the instance
  locks,                    \* instance -> its _inference_lock (asyncio.Lock)
  calls,                    \* request -> the frame of its handler coroutine
  tasks,                    \* ingest request -> the run_ocr task it created
  nextCall,                 \* the next request to arrive
  response,                 \* the response produced last
  latest,                   \* history: key -> the ingest that stored the current screenshot
  ocr_src,                  \* history: key -> the detection pass that wrote ocr_results
  ready_by,                 \* history: key -> the tasks that set ocr_event since the last ingest
  stale_done,               \* history: key -> a superseded run_ocr has completed
  loads,                    \* history: number of InternVLModel._load runs
  built,                    \* history: number of InternVLModel instances constructed
  model_names,              \* instance -> its model_name ("" while not constructed)
  matchCall,                \* one call of resolve_ocr_text: arguments and outcome
  scaleCall,                \* one call of scale_norm_to_pixels: arguments and result
  tileCall,                 \* one call of _dynamic_preprocess: image size and result
  boot,                     \* main's construction of the service: has it run, its outcome
  rpcCall,                  \* one pass of main's loop: the line read and what was sent
  parseCall                 \* one answer of the vision model: its text and what it parses to

vars == <<OCR_AVAILABLE, VISION_MODELS_AVAILABLE, sessions, vision_model, locks, calls,
          tasks, nextCall, response, latest, ocr_src, ready_by, stale_done, loads, built,
          model_names, matchCall, scaleCall, tileCall, boot, rpcCall, parseCall>>

\* The service's own state.
service == <<OCR_AVAILABLE, VISION_MODELS_AVAILABLE, sessions, vision_model, locks, calls,
             tasks, nextCall, response, latest, ocr_src, ready_by, stale_done, loads,
             built, model_names>>

\* The calls of the module's functions that are looked at on their own.
pure == <<matchCall, scaleCall, tileCall, boot, rpcCall, parseCall>>

\* SessionCache() as the dataclass constructs it; present is membership in
\* the _sessions dict.
EmptyCache == [present |-> FALSE, screenshot_id |-> "", screenshot_b64 |-> "",
               ocr_results |-> None, ocr_event |-> FALSE]

\* asyncio.Lock(): _locked, the deque of waiters (requests, in arrival
\* order), and whether release() has resolved the first waiter's future.
FreeLock == [locked |-> FALSE, waiters |-> << >>, woken |-> FALSE]

\* An ingest as history: its request number, the id and the image it stored.
NoIngest == [call |-> 0, sid |-> "", img |-> ""]

\* A detection pass as history: the ingest whose image it read, whether it
\* was a run_ocr task ("background") or resolve's own ("ondemand"), and
\* whether it was a run_ocr task already superseded by another image.
NoSrc == [sid |-> "", img |-> "", pass |-> "", stale |-> FALSE]
Pass(ingest, pass, stale) ==
  [sid |-> ingest.sid, img |-> ingest.img, pass |-> pass, stale |-> stale]

\* A handler's frame: its parameters and locals.  History: src is the ingest
\* whose image the frame holds in img, epoch the ingest that was current
\* when the request arrived, seen whether a superseded run_ocr of the
\* session had completed by then.
IdleCall == [op |-> "none", pc |-> "idle", key |-> "", method |-> "", text |-> << >>,
             threshold |-> NoThreshold, timeout |-> 0, img |-> "", sid |-> "",
             model |-> 0, src |-> NoIngest, epoch |-> 0, seen |-> FALSE,
             model_name |-> ""]

\* A handler that returned or raised: its frame is gone.
DoneCall == [IdleCall EXCEPT !.pc = "done"]

\* A run_ocr task: its state and the arguments and cache of its closure.
NoTask == [state |-> "none", key |-> "", current_id |-> "", screenshot |-> ""]
DoneTask == [NoTask EXCEPT !.state = "done"]

\* A response: the request it answers and {screenshotId, x, y} or the error.
\* History: src is the ingest whose image the coordinates were read from.
\* The frame's history is kept with it: epoch, seen, model, and whether the
\* request carried a wait timeout.
NoResponse == [op |-> "", key |-> "", method |-> "", timeout |-> 0,
               epoch |-> 0, seen |-> FALSE, kind |-> "none", err |-> "", sid |-> "",
               x |-> 0, y |-> 0, src |-> NoIngest, model |-> 0,
               ocr_available |-> FALSE, vision_loaded |-> FALSE]
Reply(c, frame) ==
  [NoResponse EXCEPT !.op = frame.op, !.key = frame.key,
                     !.method = frame.method, !.timeout = frame.timeout]
Ok(c, frame, sid, x, y, src) ==
  [Reply(c, frame) EXCEPT !.kind = "ok", !.sid = sid, !.x = x, !.y = y, !.src = src,
                          !.epoch = frame.epoch, !.seen = frame.seen,
                          !.model = frame.model]
Error(c, frame, err) == [Reply(c, frame) EXCEPT !.kind = "error", !.err = err]

ServiceInit ==
  /\ OCR_AVAILABLE \in BOOLEAN
  /\ VISION_MODELS_AVAILABLE \in BOOLEAN
  /\ sessions = [k \in Keys |-> EmptyCache]
  /\ vision_model = 0
  /\ locks = [m \in Calls |-> FreeLock]
  /\ calls = [c \in Calls |-> IdleCall]
  /\ tasks = [c \in Calls |-> NoTask]
  /\ nextCall = 1
  /\ response = NoResponse
  /\ latest = [k \in Keys |-> NoIngest]
  /\ ocr_src = [k \in Keys |-> NoSrc]
  /\ ready_by = [k \in Keys |-> {}]
  /\ stale_done = [k \in Keys |-> FALSE]
  /\ loads = 0
  /\ built = 0
  /\ model_names = [m \in Calls |-> ""]

\* A call of resolve_ocr_text(text, ocr_results, threshold): not made, made
\* ("called") or over ("returned") with its outcome; best is the loop's
\* variable of that name when the function ends.
NoMatchCall == [state |-> "none", text |-> << >>, ocr_results |-> << >>, threshold |-> 0,
                out |-> Outcome("none", "", 0, 0), best |-> None]

\* A call of scale_norm_to_pixels(x_norm, y_norm, width, height).
NoScaleCall == [state |-> "none", x_norm |-> 0, y_norm |-> 0, width |-> 1, height |-> 1,
                out |-> <<0, 0>>]

\* A call of _dynamic_preprocess on an image of width x height.
NoTileCall == [state |-> "none", width |-> 1, height |-> 1, grid |-> <<1, 1>>,
               images |-> << >>]

\* An answer of the model to a prediction on image img: the fragments it is
\* made of, its characters, the point _predict_sync takes from it and what
\* resolve answers.
NoParseCall == [state |-> "none", img |-> "B", parts |-> << >>, output_text |-> << >>,
                point |-> None, out |-> Outcome("none", "", 0, 0)]

\* OcrEngine._init: the engine it leaves in self._engine ("none" is None), or
\* "raised".  cuda and cpu say whether RapidOCR can be constructed with and
\* without use_cuda; the CPU construction is inside the except block of the
\* CUDA one, and what it raises leaves __init__.
OcrEngineInit(available, cuda, cpu) ==
  IF ~available THEN "none"
  ELSE IF cuda THEN "cuda"
  ELSE IF cpu THEN "cpu"
  ELSE "raised"

\* main's first statement, service = GroundingService(), before it ran
\* ("none"), after it returned ("started") or raised ("raised").
Boot(state, cuda, cpu, engine) ==
  [state |-> state, cuda |-> cuda, cpu |-> cpu, engine |-> engine]

\* A service that main constructed.
Constructed == Boot("started", TRUE, TRUE, "constructed")

\* The service as constructed; none of the functions is called on its own.
Init ==
  /\ ServiceInit
  /\ matchCall = NoMatchCall
  /\ scaleCall = NoScaleCall
  /\ tileCall = NoTileCall
  /\ rpcCall = NoRpcCall
  /\ parseCall = NoParseCall
  /\ boot = Constructed

\* OcrEngine._engine is not None: _init returns without an engine exactly
\* when OCR_AVAILABLE is false (were both RapidOCR constructions to raise,
\* GroundingService() would raise and no service would exist).
EngineReady == OCR_AVAILABLE

\* ---------------------------------------------------------------- variants
\* Other ways the service's tests and stores could have been written.  The
\* properties below hold of the code as it is and fail under these.

\* An ingest that keeps the previous detection result.
IngestStoreKeepingResults(cache, sid, img) ==
  [cache EXCEPT !.present = TRUE, !.screenshot_id = sid, !.screenshot_b64 = img,
                !.ocr_event = FALSE]

\* One SessionCache for all the session keys.
SharedSession(store, key, cache) == [k \in DOMAIN store |-> cache]

\* A run_ocr that publishes the regions of another image.
RunOcrStoreOther(cache, current_id, screenshot, outcome) ==
  [cache EXCEPT !.ocr_results = Some(analyze["B"]), !.ocr_event = TRUE]

\* A run_ocr that sets the event only after a detection that returned.
SetsEventOnSuccess(outcome) == outcome = "ok"

\* A resolve that does not test for a missing screenshot.
NeverMissing(cache) == FALSE

\* A resolve that always runs detection itself.
AlwaysOnDemand(cache) == TRUE

\* An _ensure_vision that constructs a model on every call.
AlwaysLoad(vm) == TRUE

\* An inference entered without regard to the lock.
LockIgnored(lock) == TRUE

\* ------------------------------------------------------------------ ingest
\* The id ingest_screenshot stores: the caller's, or the fingerprint.
ScreenshotId(ext, img) == IF ext = "" THEN Sha16(Sample(img)) ELSE ext

\* self._sessions after the handler or task of session_key stored into the
\* SessionCache that _get_session(session_key) gave it.
SessionWith(store, key, cache) == [store EXCEPT ![key] = cache]

\* The four stores of ingest_screenshot into the session's cache.
IngestStore(cache, sid, img) ==
  [cache EXCEPT !.present = TRUE, !.screenshot_id = sid, !.screenshot_b64 = img,
                !.ocr_results = None, !.ocr_event = FALSE]

\* A request arrives: requests are numbered in arrival order.  Behind
\* main() the next line is read only after the previous response was sent.
\* Variant: a request is read while earlier ones are still being handled.
ArrivesAnyTime(c, W) == c = nextCall

Arrives(c, W) ==
  /\ c = nextCall
  /\ W.serial => \A d \in Calls : d < c => calls[d].pc = "done"

\* status: it has no await, and answers with the two flags.
Status(c) ==
  /\ calls' = [calls EXCEPT ![c] = DoneCall]
  /\ response' = [NoResponse EXCEPT !.op = "status", !.kind = "ok",
                                    !.ocr_available = OCR_AVAILABLE,
                                    !.vision_loaded = vision_model # 0]
  /\ nextCall' = nextCall + 1
  /\ UNCHANGED <<pure, model_names, OCR_AVAILABLE, VISION_MODELS_AVAILABLE, sessions,
                 vision_model, locks, tasks, latest, ocr_src, ready_by, stale_done,
                 loads, built>>

StatusCall(c, W) == Arrives(c, W) /\ Status(c)

\* ingest_screenshot up to its first await (or its return, without a timeout).
Ingest(c, key, img, ext, timeout) ==
  LET sid == ScreenshotId(ext, img)
      frame == [calls[c] EXCEPT !.op = "ingest", !.key = key, !.img = img, !.sid = sid,
                                !.timeout = timeout]
  IN
  /\ sessions' = SessionWith(sessions, key, IngestStore(sessions[key], sid, img))
  /\ tasks' = [tasks EXCEPT ![c] = [state |-> "pending", key |-> key,
                                    current_id |-> sid, screenshot |-> img]]
  /\ IF timeout # 0
     THEN calls' = [calls EXCEPT ![c] = [frame EXCEPT !.pc = "wait"]]
          /\ UNCHANGED response
     ELSE calls' = [calls EXCEPT ![c] = DoneCall]
          /\ response' = Ok(c, frame, sid, 0, 0, NoIngest)
  /\ nextCall' = nextCall + 1
  /\ latest' = [latest EXCEPT ![key] = [call |-> c, sid |-> sid, img |-> img]]
  /\ ocr_src' = [ocr_src EXCEPT ![key] = NoSrc]
  /\ ready_by' = [ready_by EXCEPT ![key] = {}]
  /\ UNCHANGED <<pure, model_names, OCR_AVAILABLE, VISION_MODELS_AVAILABLE, vision_model, locks,
                 stale_done, loads, built>>

IngestCall(c, W) ==
  /\ Arrives(c, W)
  /\ \E key \in W.keys, img \in W.images, ext \in W.extids, timeout \in W.timeouts :
       Ingest(c, key, img, ext, timeout)

\* wait_for(cache.ocr_event.wait(), timeout) ends, by the event or by the
\* timeout, and ingest_screenshot returns its id.
IngestReturn(c) ==
  /\ calls[c].op = "ingest" /\ calls[c].pc = "wait"
  /\ calls' = [calls EXCEPT ![c] = DoneCall]
  /\ response' = Ok(c, calls[c], calls[c].sid, 0, 0, NoIngest)
  /\ UNCHANGED <<pure, model_names, OCR_AVAILABLE, VISION_MODELS_AVAILABLE, sessions, vision_model, locks,
                 tasks, nextCall, latest, ocr_src, ready_by, stale_done, loads, built>>

\* ------------------------------------------------------------------ run_ocr
\* run_ocr's test before it publishes.
MayPublish(cache, current_id) == cache.screenshot_id = current_id

\* Whether run_ocr sets the event: its finally clause does, on every path.
SetsEvent(outcome) == TRUE

\* What a completed run_ocr(current_id, screenshot) does to its cache.
\* outcome: "ok" analyze returned, "raise" it raised, "skip" OCR_AVAILABLE is false.
RunOcrStore(cache, current_id, screenshot, outcome) ==
  LET published == IF outcome = "ok" /\ MayPublish(cache, current_id)
                   THEN [cache EXCEPT !.ocr_results = Some(analyze[screenshot])]
                   ELSE cache
  IN IF SetsEvent(outcome) THEN [published EXCEPT !.ocr_event = TRUE] ELSE published

\* The task created by ingest request t runs to its end.
RunOcr(t) ==
  /\ tasks[t].state = "pending"
  /\ LET key == tasks[t].key
         cache == sessions[key]
         mine == [call |-> t, sid |-> tasks[t].current_id, img |-> tasks[t].screenshot]
         stale == latest[key].call # t /\ latest[key].img # tasks[t].screenshot
     IN \E outcome \in (IF OCR_AVAILABLE THEN {"ok", "raise"} ELSE {"skip"}) :
          /\ sessions' = SessionWith(sessions, key,
                RunOcrStore(cache, tasks[t].current_id, tasks[t].screenshot, outcome))
          /\ ocr_src' = [ocr_src EXCEPT ![key] =
                IF outcome = "ok" /\ MayPublish(cache, tasks[t].current_id)
                THEN Pass(mine, "background", stale) ELSE @]
          /\ ready_by' = [ready_by EXCEPT ![key] =
                IF SetsEvent(outcome) THEN @ \cup {t} ELSE @]
          /\ stale_done' = [stale_done EXCEPT ![key] = @ \/ stale]
  /\ tasks' = [tasks EXCEPT ![t] = DoneTask]
  /\ UNCHANGED <<pure, model_names, OCR_AVAILABLE, VISION_MODELS_AVAILABLE, vision_model, locks, calls,
                 nextCall, response, latest, loads, built>>

\* ----------------------------------------------------------------- resolve
\* resolve's test for "No screenshot available for this session".
NoScreenshot(cache) == cache.screenshot_b64 = "" \/ cache.screenshot_id = ""

\* ocr_match_threshold if it is not None, else 0.8.
EffectiveThreshold(threshold) ==
  IF threshold # NoThreshold THEN threshold ELSE DefaultThreshold

\* resolve's test for running detection itself.
NeedsOnDemand(cache) == IsNone(cache.ocr_results)

\* resolve_ocr_text over the arguments resolve can call it with, computed
\* once: the texts of the requests, the detector's result lists, the
\* thresholds after the default.
DetectionResults == {analyze[img] : img \in Images}
ResolveOcrText ==
  [text \in OcrTexts, ocr_results \in DetectionResults,
   threshold \in {EffectiveThreshold(t) : t \in Thresholds} |->
     resolve_ocr_text(text, ocr_results, threshold)]

\* The last two statements of the text-match branch: match against
\* cache.ocr_results and answer with cache.screenshot_id.  src names the
\* ingest whose image those results were computed from.
TextResult(c, frame, cache, src) ==
  LET r == ResolveOcrText[frame.text, The(cache.ocr_results),
                             EffectiveThreshold(frame.threshold)]
  IN IF r.kind = "ok" THEN Ok(c, frame, cache.screenshot_id, r.x, r.y, src)
     ELSE Error(c, frame, r.err)

\* The text-match branch from "if cache.ocr_results is None" on: to the
\* await inside OcrEngine.analyze ("ocr"), or to the return or raise, which
\* gives the response.
OcrBranch(c, frame, cache, lat, osrc) ==
  IF NeedsOnDemand(cache)
  THEN IF ~EngineReady
       THEN [pc |-> "done", frame |-> DoneCall,
             response |-> Error(c, frame, "EngineUnavailable")]
       ELSE [pc |-> "ocr",
             frame |-> [frame EXCEPT !.pc = "ocr", !.img = cache.screenshot_b64, !.src = lat],
             response |-> NoResponse]
  ELSE [pc |-> "done", frame |-> DoneCall,
        response |-> TextResult(c, frame, cache,
                                [call |-> 0, sid |-> osrc.sid, img |-> osrc.img])]

\* _ensure_vision's test for constructing a model.
NeedsLoad(vm) == vm = 0

\* asyncio.Lock.acquire's test for taking the lock without waiting.
LockFree(lock) == ~lock.locked /\ lock.waiters = << >>

\* Variant: a lock whose newest waiter is woken first.
AcquireOrQueueFirst(lock, c) ==
  IF LockFree(lock) THEN [lock EXCEPT !.locked = TRUE]
  ELSE [lock EXCEPT !.waiters = <<c>> \o @]

\* async with self._inference_lock, entered by request c: take the lock, or
\* queue behind it.
AcquireOrQueue(lock, c) ==
  IF LockFree(lock) THEN [lock EXCEPT !.locked = TRUE]
  ELSE [lock EXCEPT !.waiters = Append(@, c)]

\* asyncio.Lock.release: unlock and resolve the first waiter's future.
Release(lock) == [lock EXCEPT !.locked = FALSE, !.woken = (lock.waiters # << >>)]

\* resolve up to its first await, or to its return or raise.
Resolve(c, key, method, text, description, threshold, timeout, model_name, loadOk) ==
  LET cache == [sessions[key] EXCEPT !.present = TRUE]
      entry == [calls[c] EXCEPT !.op = "resolve", !.key = key, !.method = method]
      frame == [entry EXCEPT !.text = text, !.threshold = threshold,
                             !.timeout = timeout, !.epoch = latest[key].call,
                             !.seen = stale_done[key]]
      toModel == ~NoScreenshot(cache) /\ method = "prediction" /\ description # ""
      load == toModel /\ NeedsLoad(vision_model) /\ VISION_MODELS_AVAILABLE
      model == IF NeedsLoad(vision_model) THEN built + 1 ELSE vision_model
      resolved == IF model_name = "" THEN DefaultModel ELSE model_name
      infer == toModel /\ (IF NeedsLoad(vision_model)
                           THEN VISION_MODELS_AVAILABLE /\ loadOk ELSE TRUE)
      ocr == OcrBranch(c, frame, cache, latest[key], ocr_src[key])
      fail(err) == /\ calls' = [calls EXCEPT ![c] = DoneCall]
                   /\ response' = Error(c, entry, err)
  IN
  /\ load \/ loadOk
  /\ sessions' = SessionWith(sessions, key, cache)
  /\ nextCall' = nextCall + 1
  /\ loads' = IF load THEN loads + 1 ELSE loads
  /\ built' = IF load /\ loadOk THEN built + 1 ELSE built
  /\ vision_model' = IF load /\ loadOk THEN built + 1 ELSE vision_model
  /\ model_names' = IF load /\ loadOk THEN [model_names EXCEPT ![built + 1] = resolved]
                    ELSE model_names
  /\ locks' = IF infer THEN [locks EXCEPT ![model] = AcquireOrQueue(@, c)] ELSE locks
  /\ IF NoScreenshot(cache) THEN fail("NotFound")
     ELSE IF method = "ocr"
     THEN IF timeout # 0
          THEN calls' = [calls EXCEPT ![c] = [frame EXCEPT !.pc = "wait"]]
               /\ UNCHANGED response
          ELSE calls' = [calls EXCEPT ![c] = ocr.frame]
               /\ response' = IF ocr.pc = "done" THEN ocr.response ELSE response
     ELSE IF method = "prediction"
     THEN IF description = "" THEN fail("InvalidArgument")
          ELSE IF ~infer THEN fail("EngineUnavailable")
          ELSE calls' = [calls EXCEPT ![c] =
                  [entry EXCEPT !.pc = IF LockFree(locks[model]) THEN "infer" ELSE "gate",
                                !.img = cache.screenshot_b64, !.src = latest[key],
                                !.model = model, !.model_name = resolved]]
               /\ UNCHANGED response
     ELSE fail("UnknownMethod")
  /\ UNCHANGED <<pure, OCR_AVAILABLE, VISION_MODELS_AVAILABLE, tasks, latest, ocr_src,
                 ready_by, stale_done>>

ResolveCall(c, W) ==
  /\ Arrives(c, W)
  /\ \E key \in W.keys, method \in W.methods, text \in W.texts,
        description \in W.descriptions, threshold \in W.thresholds,
        timeout \in W.timeouts, model_name \in W.model_names, loadOk \in BOOLEAN :
       Resolve(c, key, method, text, description, threshold, timeout, model_name, loadOk)

\* wait_for(cache.ocr_event.wait(), timeout) ends, by the event or by the
\* timeout, and the text-match branch goes on.
ResolveWake(c) ==
  /\ calls[c].op = "resolve" /\ calls[c].pc = "wait"
  /\ LET key == calls[c].key
         ocr == OcrBranch(c, calls[c], sessions[key], latest[key], ocr_src[key])
     IN /\ calls' = [calls EXCEPT ![c] = ocr.frame]
        /\ response' = IF ocr.pc = "done" THEN ocr.response ELSE response
  /\ UNCHANGED <<pure, model_names, OCR_AVAILABLE, VISION_MODELS_AVAILABLE, sessions, vision_model, locks,
                 tasks, nextCall, latest, ocr_src, ready_by, stale_done, loads, built>>

\* The on-demand analyze returns (or raises): resolve stores the result in
\* cache.ocr_results and matches against it.
ResolveOcrDone(c) ==
  /\ calls[c].op = "resolve" /\ calls[c].pc = "ocr"
  /\ LET key == calls[c].key IN
     \E outcome \in {"ok", "raise"} :
       IF outcome = "ok"
       THEN LET cache == [sessions[key] EXCEPT
                            !.ocr_results = Some(analyze[calls[c].img])]
            IN /\ sessions' = SessionWith(sessions, key, cache)
               /\ ocr_src' = [ocr_src EXCEPT ![key] = Pass(calls[c].src, "ondemand", FALSE)]
               /\ response' = TextResult(c, calls[c], cache, calls[c].src)
       ELSE /\ response' = Error(c, calls[c], "InternalError")
            /\ UNCHANGED <<sessions, ocr_src>>
  /\ calls' = [calls EXCEPT ![c] = DoneCall]
  /\ UNCHANGED <<pure, model_names, OCR_AVAILABLE, VISION_MODELS_AVAILABLE, vision_model, locks, tasks,
                 nextCall, latest, ready_by, stale_done, loads, built>>

\* A waiter whose future release() resolved resumes: it leaves the queue,
\* takes the lock and hands _predict_sync to the executor.
GateAcquire(c) ==
  /\ calls[c].op = "resolve" /\ calls[c].pc = "gate"
  /\ LET lock == locks[calls[c].model] IN
     /\ lock.woken /\ lock.waiters # << >> /\ Head(lock.waiters) = c
     /\ locks' = [locks EXCEPT ![calls[c].model] =
                    [locked |-> TRUE, waiters |-> Tail(lock.waiters), woken |-> FALSE]]
  /\ calls' = [calls EXCEPT ![c] = [@ EXCEPT !.pc = "infer"]]
  /\ UNCHANGED <<pure, model_names, OCR_AVAILABLE, VISION_MODELS_AVAILABLE, sessions, vision_model, tasks,
                 nextCall, response, latest, ocr_src, ready_by, stale_done, loads, built>>

\* The id resolve answers with on the vision path.
VisionResultId(frame, cache) == cache.screenshot_id

\* _predict_sync returns: the lock is released (waking the first waiter) and
\* resolve answers with the coordinates, or raises when there are none.
InferDone(c) ==
  /\ calls[c].op = "resolve" /\ calls[c].pc = "infer"
  /\ locks' = [locks EXCEPT ![calls[c].model] = Release(@)]
  /\ \E answer \in VisionAnswers :
       LET coords == PredictSync(calls[c].img, answer) IN
       response' = IF IsNone(coords) THEN Error(c, calls[c], "NoMatch")
                   ELSE Ok(c, calls[c], VisionResultId(calls[c], sessions[calls[c].key]),
                           The(coords)[1], The(coords)[2], calls[c].src)
  /\ calls' = [calls EXCEPT ![c] = DoneCall]
  /\ UNCHANGED <<pure, model_names, OCR_AVAILABLE, VISION_MODELS_AVAILABLE, sessions, vision_model, tasks,
                 nextCall, latest, ocr_src, ready_by, stale_done, loads, built>>

\* ----------------------------------------------------------- specifications
\* Spec: the session store and text match under callers that may be inside
\* the service at the same time.  A1 and B get different ids.  The vision
\* flag is read only on the vision path, which this workload never enters.
WSpec == Workload({"s1"}, {"A1", "B"}, {""}, Timeouts, {"ocr", "other"}, OcrTexts,
                  {NoThreshold}, FALSE)

InitStore == Init /\ VISION_MODELS_AVAILABLE

Next ==
  \E c \in Calls :
    \/ IngestCall(c, WSpec)
    \/ IngestReturn(c)
    \/ RunOcr(c)
    \/ ResolveCall(c, WSpec)
    \/ ResolveWake(c)
    \/ ResolveOcrDone(c)

Spec == InitStore /\ [][Next]_vars

\* SpecMain: the service behind main()'s loop, every kind of request; A1 and
\* A2 get the same id.  No request ever finds the inference lock taken, so
\* no waiter is ever woken.
WMain == Workload({"s1"}, Images, ExtIds, Timeouts, Methods, OcrTexts, Thresholds, TRUE)

NextMain ==
  \E c \in Calls :
    \/ IngestCall(c, WMain)
    \/ IngestReturn(c)
    \/ RunOcr(c)
    \/ ResolveCall(c, WMain)
    \/ ResolveWake(c)
    \/ ResolveOcrDone(c)
    \/ InferDone(c)

SpecMain == Init /\ [][NextMain]_vars

\* SpecVision: every method, the vision path with its model and lock, under
\* callers that may be inside the service at the same time.  Without wait
\* timeouts no handler waits on ocr_event.
WVision == Workload({"s1"}, {"A1", "B"}, {""}, {0}, Methods, {<< >>},
                    {NoThreshold}, FALSE)

NextVision ==
  \E c \in Calls :
    \/ IngestCall(c, WVision)
    \/ RunOcr(c)
    \/ ResolveCall(c, WVision)
    \/ ResolveOcrDone(c)
    \/ GateAcquire(c)
    \/ InferDone(c)

SpecVision == Init /\ [][NextVision]_vars

\* SpecFair: ingests and text-match resolves of one session with the event
\* loop's scheduling.  What the loop has to run for request c, it runs: the
\* run_ocr task the request created (and the executor's call returns), the
\* handler whose wait with a timeout ended, the handler whose executor call
\* returned.
WFair == Workload({"s1"}, {"B"}, {""}, Timeouts, {"ocr"}, {<<" ", "O", "k">>},
                  {NoThreshold}, FALSE)

NextFair ==
  \E c \in Calls :
    \/ IngestCall(c, WFair)
    \/ IngestReturn(c)
    \/ RunOcr(c)
    \/ ResolveCall(c, WFair)
    \/ ResolveWake(c)
    \/ ResolveOcrDone(c)

Continue(c) == RunOcr(c) \/ IngestReturn(c) \/ ResolveWake(c) \/ ResolveOcrDone(c)

Fairness == \A c \in Calls : WF_vars(Continue(c))

SpecFair == InitStore /\ [][NextFair]_vars /\ Fairness

\* SpecBoot: the process from its start: main constructs the service, and
\* if that returns, serves one request after the other.
WBoot == Workload({"s1"}, {"B"}, {""}, Timeouts, Methods, {<<" ", "O", "k">>},
                  {NoThreshold}, TRUE)

InitBoot ==
  /\ ServiceInit
  /\ matchCall = NoMatchCall
  /\ scaleCall = NoScaleCall
  /\ tileCall = NoTileCall
  /\ rpcCall = NoRpcCall
  /\ parseCall = NoParseCall
  /\ \E cuda \in BOOLEAN, cpu \in BOOLEAN : boot = Boot("none", cuda, cpu, "none")

\* service = GroundingService(): OcrEngine() is constructed in __init__.
Construct ==
  /\ boot.state = "none"
  /\ LET engine == OcrEngineInit(OCR_AVAILABLE, boot.cuda, boot.cpu)
     IN boot' = IF engine = "raised" THEN [boot EXCEPT !.state = "raised"]
                ELSE [boot EXCEPT !.state = "started", !.engine = engine]
  /\ UNCHANGED <<service, matchCall, scaleCall, tileCall, rpcCall, parseCall>>

Started == boot.state = "started"

NextBoot ==
  \/ Construct
  \/ \E c \in Calls :
       \/ Started /\ IngestCall(c, WBoot)
       \/ Started /\ IngestReturn(c)
       \/ Started /\ RunOcr(c)
       \/ Started /\ ResolveCall(c, WBoot)
       \/ Started /\ ResolveWake(c)
       \/ Started /\ ResolveOcrDone(c)
       \/ Started /\ InferDone(c)

SpecBoot == InitBoot /\ [][NextBoot]_vars

\* SpecLacks: ingests, and resolves that come without the parameter of
\* their method: text-match without ocr_text, vision without description.
WLacks == [Workload({"s1"}, {"A1", "B"}, {""}, Timeouts, {"ocr", "prediction"},
                    {<< >>}, {NoThreshold}, FALSE) EXCEPT !.descriptions = {""}]

NextLacks ==
  \E c \in Calls :
    \/ IngestCall(c, WLacks)
    \/ IngestReturn(c)
    \/ RunOcr(c)
    \/ ResolveCall(c, WLacks)
    \/ ResolveWake(c)
    \/ ResolveOcrDone(c)

SpecLacks == Init /\ [][NextLacks]_vars

\* SpecTwice: one session, every ingest with the image A2 and the id "x",
\* every resolve a text-match of " Ok"; the detector is present.
WTwice == Workload({"s1"}, {"A2"}, {"x"}, Timeouts, {"ocr"}, {<<" ", "O", "k">>},
                   {NoThreshold}, FALSE)

InitTwice == InitStore /\ OCR_AVAILABLE

NextTwice ==
  \E c \in Calls :
    \/ IngestCall(c, WTwice)
    \/ IngestReturn(c)
    \/ RunOcr(c)
    \/ ResolveCall(c, WTwice)
    \/ ResolveWake(c)
    \/ ResolveOcrDone(c)

SpecTwice == InitTwice /\ [][NextTwice]_vars

\* SpecPair: ingests and text-match resolves of two sessions, under callers
\* that may be inside the service at the same time.
WPair == Workload(Keys, {"B"}, {""}, Timeouts, {"ocr"}, {<<" ", "O", "k">>},
                  {NoThreshold}, FALSE)

NextPair ==
  \E c \in Calls :
    \/ IngestCall(c, WPair)
    \/ IngestReturn(c)
    \/ RunOcr(c)
    \/ ResolveCall(c, WPair)
    \/ ResolveWake(c)
    \/ ResolveOcrDone(c)

SpecPair == InitStore /\ [][NextPair]_vars

\* SpecGate: vision resolves of two sessions that arrive while others are
\* inside the service.  Both sessions were ingested, and their detection
\* completed, before the first of these requests.
WGate == [Workload(Keys, {"B"}, {""}, {0}, {"prediction"}, {<< >>}, {NoThreshold},
                   FALSE) EXCEPT !.descriptions = {"button"}]

Ingested(img) ==
  [present |-> TRUE, screenshot_id |-> ScreenshotId("", img), screenshot_b64 |-> img,
   ocr_results |-> Some(analyze[img]), ocr_event |-> TRUE]

InitGate ==
  /\ OCR_AVAILABLE = TRUE
  /\ VISION_MODELS_AVAILABLE = TRUE
  /\ sessions = [k \in Keys |-> Ingested("B")]
  /\ latest = [k \in Keys |-> [call |-> 0, sid |-> ScreenshotId("", "B"), img |-> "B"]]
  /\ ocr_src = [k \in Keys |-> Pass(latest[k], "background", FALSE)]
  /\ vision_model = 0
  /\ locks = [m \in Calls |-> FreeLock]
  /\ calls = [c \in Calls |-> IdleCall]
  /\ tasks = [c \in Calls |-> NoTask]
  /\ nextCall = 1
  /\ response = NoResponse
  /\ ready_by = [k \in Keys |-> {}]
  /\ stale_done = [k \in Keys |-> FALSE]
  /\ loads = 0
  /\ built = 0
  /\ model_names = [m \in Calls |-> ""]
  /\ matchCall = NoMatchCall
  /\ scaleCall = NoScaleCall
  /\ tileCall = NoTileCall
  /\ rpcCall = NoRpcCall
  /\ parseCall = NoParseCall
  /\ boot = Constructed

NextGate ==
  \E c \in Calls :
    \/ ResolveCall(c, WGate)
    \/ GateAcquire(c)
    \/ InferDone(c)

SpecGate == InitGate /\ [][NextGate]_vars

\* SpecNames: SpecVision's requests, the vision resolves naming no model or
\* the model m2.
WNames == [WVision EXCEPT !.model_names = ModelNames]

NextNames ==
  \E c \in Calls :
    \/ IngestCall(c, WNames)
    \/ RunOcr(c)
    \/ ResolveCall(c, WNames)
    \/ ResolveOcrDone(c)
    \/ GateAcquire(c)
    \/ InferDone(c)

SpecNames == Init /\ [][NextNames]_vars

\* SpecLoop: the three methods of the service behind main's loop, which
\* awaits handle and sends its response before it reads the next line.
WLoop == Workload({"s1"}, {"B"}, {""}, Timeouts, {"ocr", "prediction"},
                  {<<" ", "O", "k">>}, {NoThreshold}, TRUE)

NextLoop ==
  \E c \in Calls :
    \/ StatusCall(c, WLoop)
    \/ IngestCall(c, WLoop)
    \/ IngestReturn(c)
    \/ RunOcr(c)
    \/ ResolveCall(c, WLoop)
    \/ ResolveWake(c)
    \/ ResolveOcrDone(c)
    \/ InferDone(c)

SpecLoop == Init /\ [][NextLoop]_vars

\* SpecMatch: resolve_ocr_text called on its own, with every list of up to
\* MaxRegions of the regions below, every target and every threshold.
MatchRegions ==
  { Region(<<"O", "K">>, 10, 20, 40, 10), Region(<<"o", "k", " ">>, 200, 300, 41, 11),
    Region(<<"o">>, 30, 30, 5, 7), Region(<<"n", "o">>, 0, 0, 10, 10),
    Region(<<"z", "z">>, 500, 400, 0, 9) }
MatchTexts == OcrTexts \cup {<<"n", "o", "k">>}
MatchThresholds == {0, 500, DefaultThreshold, 1000}

InitMatch ==
  /\ ServiceInit /\ OCR_AVAILABLE /\ VISION_MODELS_AVAILABLE
  /\ scaleCall = NoScaleCall
  /\ tileCall = NoTileCall
  /\ rpcCall = NoRpcCall
  /\ parseCall = NoParseCall
  /\ boot = Constructed
  /\ \E text \in MatchTexts, threshold \in MatchThresholds, n \in 0..MaxRegions :
       \E ocr_results \in [1..n -> MatchRegions] :
         matchCall = [NoMatchCall EXCEPT !.state = "called", !.text = text,
                                         !.ocr_results = ocr_results,
                                         !.threshold = threshold]

\* resolve_ocr_text runs: its result or error, and the loop's best.
ResolveOcrTextCall ==
  /\ matchCall.state = "called"
  /\ matchCall' =
       [matchCall EXCEPT
          !.state = "returned",
          !.out = resolve_ocr_text(matchCall.text, matchCall.ocr_results,
                                   matchCall.threshold),
          !.best = IF matchCall.text = << >> THEN None
                   ELSE BestMatch(Strip(Lower(matchCall.text)), matchCall.ocr_results,
                                  Len(matchCall.ocr_results))[1]]
  /\ UNCHANGED <<service, scaleCall, tileCall, boot, rpcCall, parseCall>>

NextMatch == ResolveOcrTextCall

SpecMatch == InitMatch /\ [][NextMatch]_vars

\* SpecScale: scale_norm_to_pixels called on its own: normalized coordinates
\* from 0 to beyond 1000, dimensions from 1 pixel up.
ScaleNorms == {0, 1, 290, 500, 999, 1000, 1500}
ScaleDims == {1, 100, 800, 1000}

InitScale ==
  /\ ServiceInit /\ OCR_AVAILABLE /\ VISION_MODELS_AVAILABLE
  /\ matchCall = NoMatchCall
  /\ tileCall = NoTileCall
  /\ rpcCall = NoRpcCall
  /\ parseCall = NoParseCall
  /\ boot = Constructed
  /\ \E x_norm \in ScaleNorms, y_norm \in ScaleNorms, width \in ScaleDims,
        height \in ScaleDims :
       scaleCall = [NoScaleCall EXCEPT !.state = "called", !.x_norm = x_norm,
                                       !.y_norm = y_norm, !.width = width,
                                       !.height = height]

ScaleNormToPixelsCall ==
  /\ scaleCall.state = "called"
  /\ scaleCall' = [scaleCall EXCEPT
                     !.state = "returned",
                     !.out = scale_norm_to_pixels(scaleCall.x_norm, scaleCall.y_norm,
                                                  scaleCall.width, scaleCall.height)]
  /\ UNCHANGED <<service, matchCall, tileCall, boot, rpcCall, parseCall>>

NextScale == ScaleNormToPixelsCall

SpecScale == InitScale /\ [][NextScale]_vars

\* SpecTile: _dynamic_preprocess called on its own, on images from 1 pixel to
\* several tiles in each direction.
TileDims == {1, 200, 448, 640, 800, 896, 1000, 1448, 1920, 3000}

\* Image sizes: every pair of these, and two images of aspect ratio 7 / 6,
\* which is as far from 1 as from 4 / 3.
TileSizes == (TileDims \X TileDims) \cup {<<700, 600>>, <<1400, 1200>>}

InitTile ==
  /\ ServiceInit /\ OCR_AVAILABLE /\ VISION_MODELS_AVAILABLE
  /\ matchCall = NoMatchCall
  /\ scaleCall = NoScaleCall
  /\ boot = Constructed
  /\ rpcCall = NoRpcCall
  /\ parseCall = NoParseCall
  /\ \E size \in TileSizes :
       tileCall = [NoTileCall EXCEPT !.state = "called", !.width = size[1],
                                     !.height = size[2]]

DynamicPreprocessCall ==
  /\ tileCall.state = "called"
  /\ LET result == dynamic_preprocess(tileCall.width, tileCall.height)
     IN tileCall' = [tileCall EXCEPT !.state = "returned", !.grid = result.grid,
                                     !.images = result.images]
  /\ UNCHANGED <<service, matchCall, scaleCall, boot, rpcCall, parseCall>>

NextTile == DynamicPreprocessCall

SpecTile == InitTile /\ [][NextTile]_vars

\* SpecRpc: one pass of main's loop in either server, over every line.
InitRpc ==
  /\ ServiceInit /\ OCR_AVAILABLE /\ VISION_MODELS_AVAILABLE
  /\ matchCall = NoMatchCall
  /\ scaleCall = NoScaleCall
  /\ tileCall = NoTileCall
  /\ boot = Constructed
  /\ parseCall = NoParseCall
  /\ \E server \in Servers, line \in Lines :
       rpcCall = [NoRpcCall EXCEPT !.state = "read", !.server = server, !.line = line]

\* The loop's body: skip a blank line, answer a line that json.loads
\* rejects, else send what handle returns.  payload.get raises on a JSON
\* value that is not an object, which leaves handle and main.
MainLoopBody ==
  /\ rpcCall.state = "read"
  /\ LET line == rpcCall.line IN
     CASE line.kind = "blank" -> rpcCall' = [rpcCall EXCEPT !.state = "skipped"]
       [] line.kind = "invalid" ->
            rpcCall' = [rpcCall EXCEPT !.state = "sent",
                                       !.sent = Some(RpcError(None, ParseErrorCode,
                                                              "Parse error"))]
       [] line.kind = "value" -> rpcCall' = [rpcCall EXCEPT !.state = "raised"]
       [] OTHER ->
            \E outcome \in OutcomesOf(rpcCall.server, line) :
              rpcCall' = [rpcCall EXCEPT !.state = "sent", !.outcome = outcome,
                                         !.sent = Some(handle(rpcCall.server, line,
                                                              outcome))]
  /\ UNCHANGED <<service, matchCall, scaleCall, tileCall, boot, parseCall>>

NextRpc == MainLoopBody

SpecRpc == InitRpc /\ [][NextRpc]_vars

\* SpecParse: one answer of the model, parsed by _predict_sync and answered
\* by resolve, over every answer of at most MaxFragments fragments.
InitParse ==
  /\ ServiceInit /\ OCR_AVAILABLE /\ VISION_MODELS_AVAILABLE
  /\ matchCall = NoMatchCall
  /\ scaleCall = NoScaleCall
  /\ tileCall = NoTileCall
  /\ boot = Constructed
  /\ rpcCall = NoRpcCall
  /\ \E img \in Images, parts \in AnswerParts :
       parseCall = [NoParseCall EXCEPT !.state = "answered", !.img = img,
                                       !.parts = parts,
                                       !.output_text = AnswerText(parts)]

\* _predict_sync from the model's answer on, and the end of resolve's
\* prediction branch: the coordinates, or "Vision model could not find
\* target".
PredictFromAnswer ==
  /\ parseCall.state = "answered"
  /\ LET point == AnswerPoint(parseCall.output_text)
         size  == ImageSize(parseCall.img)
         coords == IF IsNone(point) THEN None
                   ELSE Some(ScalePoint(The(point), size[1], size[2]))
     IN parseCall' = [parseCall EXCEPT
                        !.state = "resolved",
                        !.point = point,
                        !.out = IF IsNone(coords) THEN Outcome("error", "NoMatch", 0, 0)
                                ELSE Outcome("ok", "", The(coords)[1], The(coords)[2])]
  /\ UNCHANGED <<service, matchCall, scaleCall, tileCall, boot, rpcCall>>

NextParse == PredictFromAnswer

SpecParse == InitParse /\ [][NextParse]_vars

\* -------------------------------------------------------------- properties
ActivePc == {"wait", "ocr", "gate", "infer"}

\* A text-match resolve answered with coordinates.
TextAnswered ==
  response.op = "resolve" /\ response.method = "ocr" /\ response.kind = "ok"

\* C1: Staleness.  Once a run_ocr task superseded by the ingest of another
\* screenshot has completed, the session holds the id of the latest ingest,
\* ocr_results is never the result of that superseded pass, and a text-match
\* resolve that arrived afterwards (with no further ingest while it ran)
\* answers from a detection pass over the latest screenshot.
C1_Staleness ==
  \A k \in Keys :
    stale_done[k] =>
      /\ sessions[k].screenshot_id = latest[k].sid
      /\ ~ocr_src[k].stale
      /\ (TextAnswered /\ response.key = k /\ response.seen
            /\ response.epoch = latest[k].call)
           => response.src.img = latest[k].img

\* C2: In every reachable state a session's ocr_results is absent or was
\* computed from the image the session holds now, whichever pass wrote it
\* (a run_ocr task or resolve's on-demand detection).
C2_RegionsOfCurrentImage ==
  \A k \in Keys :
    ~IsNone(sessions[k].ocr_results) => ocr_src[k].img = sessions[k].screenshot_b64

\* C3: Every successful resolve answers with the screenshot_id of the ingest
\* whose image (vision) or detection result (text match) gave its x, y.
C3_AnswersIdOfSource ==
  (response.op = "resolve" /\ response.kind = "ok") => response.sid = response.src.sid

\* The calls whose _predict_sync is running in the executor.
Inferring == {c \in Calls : calls[c].op = "resolve" /\ calls[c].pc = "infer"}

\* C4: Inference serialization.  At every instant at most one call is inside
\* _predict_sync, and while one is, the model's lock is held: a second vision
\* resolve that arrives meanwhile queues at the lock until the first is done.
C4_OneInference ==
  /\ Cardinality(Inferring) <= 1
  /\ \A c \in Inferring : locks[calls[c].model].locked
  /\ \A c \in Calls : calls[c].pc = "gate" => calls[c].model = vision_model

\* Two vision resolves are in flight: one infers, the other waits at the lock.
C4_Witness ==
  \E c, d \in Calls : calls[c].pc = "infer" /\ calls[d].pc = "gate"
                      /\ calls[c].model = calls[d].model

\* C5 as stated: no two model loads ever happen, neither concurrently nor one
\* after another.
C5_NoSecondLoad == loads <= 1

\* C5, amended: at most one model instance is ever constructed; once it
\* exists no further load is started and it is never replaced; every vision
\* resolve that reaches the lock or the inference uses that instance.  (A
\* load that raised constructed nothing, and the next vision resolve loads
\* again.)
C5_OneInstance ==
  [][ /\ built' <= 1
      /\ vision_model # 0 => (loads' = loads /\ vision_model' = vision_model)
      /\ \A c \in Calls : calls'[c].pc \in {"gate", "infer"} =>
           (calls'[c].model = vision_model' /\ vision_model' = 1) ]_vars

\* A load raised, the next vision resolve loaded again and built the
\* instance, and it infers on it.
C5_Witness ==
  /\ loads >= 2 /\ built = 1 /\ vision_model = 1
  /\ \E c \in Calls : calls[c].pc = "infer" /\ calls[c].model = vision_model

\* C6: Within an ingest cycle only the run_ocr task that this ingest created
\* sets the session's event: the event is set only once that task has ended,
\* and no task of an earlier ingest has set it since.
C6_ReadyByOwnDetection ==
  \A k \in Keys :
    /\ ready_by[k] \subseteq {latest[k].call}
    /\ sessions[k].ocr_event => latest[k].call \in ready_by[k]

\* C7: Readiness is live.  A run has finitely many ingests, so each ingested
\* session has an ingest that no other follows: from some point on that
\* session's event is set, whether the detection returned, raised or there
\* is no detector, and no handler is still waiting on an event.
C7_ReadinessEventually ==
  <>[](/\ \A k \in WFair.keys : latest[k].call = 0 \/ sessions[k].ocr_event
       /\ \A c \in Calls : calls[c].pc # "wait")

\* The current ingest's own task has set the event without a result: its
\* detection raised, or there is no detector.
C7_Witness ==
  \E k \in Keys :
    /\ latest[k].call # 0 /\ ready_by[k] = {latest[k].call}
    /\ sessions[k].ocr_event /\ IsNone(sessions[k].ocr_results)

\* C8: The step of an ingest leaves the session's entry holding the new id
\* and the new image, no detection result and the event cleared, whatever it
\* held before; and at all times the entry holds the id and the image of one
\* and the same ingest, the one that ran last.
C8_LastWriteWins ==
  [][ \A k \in Keys :
        /\ latest'[k] # latest[k] =>
             sessions'[k] = [present |-> TRUE, screenshot_id |-> latest'[k].sid,
                             screenshot_b64 |-> latest'[k].img,
                             ocr_results |-> None, ocr_event |-> FALSE]
        /\ sessions'[k].screenshot_id = latest'[k].sid
        /\ sessions'[k].screenshot_b64 = latest'[k].img ]_vars

\* Two ingests raced: the first still waits for its detection, the entry
\* holds the second's id and image, and the first's result was not published.
C8_Witness ==
  \E c \in Calls :
    /\ calls[c].op = "ingest" /\ calls[c].pc = "wait"
    /\ latest[calls[c].key].call # c
    /\ calls[c].sid # latest[calls[c].key].sid
    /\ tasks[c].state = "done"
    /\ sessions[calls[c].key].screenshot_id = latest[calls[c].key].sid
    /\ sessions[calls[c].key].screenshot_b64 = latest[calls[c].key].img
    /\ IsNone(sessions[calls[c].key].ocr_results)

\* C9: While no screenshot has been ingested for a session, every resolve of
\* it has failed with NotFound, whatever its method: none of its handlers is
\* waiting, detecting, queued at the lock or inferring, it has no detection
\* result, and if no session has a screenshot no model load was started.
C9_NotFound ==
  /\ \A k \in Keys :
       latest[k].call = 0 =>
         /\ (response.op = "resolve" /\ response.key = k) =>
              (response.kind = "error" /\ response.err = "NotFound")
         /\ \A c \in Calls : calls[c].key = k => calls[c].pc \notin ActivePc
         /\ IsNone(sessions[k].ocr_results)
  /\ (\A k \in Keys : latest[k].call = 0) =>
       (loads = 0 /\ built = 0 /\ vision_model = 0)

\* A vision resolve of a session without a screenshot has failed with
\* NotFound, and its lookup created the session's empty entry.
C9_Witness ==
  /\ response.op = "resolve" /\ response.method = "prediction"
  /\ response.err = "NotFound"
  /\ latest[response.key].call = 0 /\ sessions[response.key].present
  /\ loads = 0

\* The response is what resolve_ocr_text gives for text against results.
AnswerOf(resp, text, results, threshold) ==
  LET r == resolve_ocr_text(text, results, EffectiveThreshold(threshold))
  IN resp.kind = r.kind /\ resp.err = r.err
     /\ (r.kind = "ok" => resp.x = r.x /\ resp.y = r.y)

\* C10: A text-match resolve with a wait timeout goes on when its wait ends.
\* If the session has no detection result then, it runs detection itself on
\* the screenshot the session holds at that moment (failing with
\* EngineUnavailable only when there is no detector) and answers from that
\* result; if there is a result it answers from it in the same step, without
\* running detection.
C10_WaitThenProceed ==
  [][ \A c \in Calls :
        /\ (calls[c].op = "resolve" /\ calls[c].pc = "wait" /\ calls'[c].pc # "wait") =>
             IF IsNone(sessions[calls[c].key].ocr_results)
             THEN IF EngineReady
                  THEN /\ calls'[c].pc = "ocr"
                       /\ calls'[c].img = sessions[calls[c].key].screenshot_b64
                       /\ response' = response
                  ELSE /\ calls'[c].pc = "done"
                       /\ response'.kind = "error" /\ response'.err = "EngineUnavailable"
             ELSE /\ calls'[c].pc = "done"
                  /\ AnswerOf(response', calls[c].text,
                              The(sessions[calls[c].key].ocr_results), calls[c].threshold)
        /\ (calls[c].op = "resolve" /\ calls[c].pc = "ocr" /\ calls[c].timeout # 0
              /\ calls'[c].pc # "ocr") =>
             \/ response'.kind = "error" /\ response'.err = "InternalError"
             \/ AnswerOf(response', calls[c].text, AnalyzeSync(calls[c].img),
                         calls[c].threshold) ]_vars

\* A text-match resolve with a wait timeout found no result when its wait
\* ended, ran detection itself and answered with coordinates.
C10_Witness ==
  \E k \in Keys :
    /\ TextAnswered /\ response.key = k /\ response.timeout # 0
    /\ ocr_src[k].pass = "ondemand"
    /\ response.src.img = ocr_src[k].img

\* Fraction p is greater than fraction q.
Greater(p, q) == p[1] * q[2] > q[1] * p[2]

\* The similarity of the call's target to its i-th region, as a fraction.
Similarity(i) ==
  Ratio(Strip(Lower(matchCall.text)), Strip(Lower(matchCall.ocr_results[i].text)))

\* Region i has the greatest similarity, and is the first that has it.
FirstOfMaximal(i) ==
  /\ \A j \in 1..Len(matchCall.ocr_results) : ~Greater(Similarity(j), Similarity(i))
  /\ \A j \in 1..(i - 1) : Greater(Similarity(i), Similarity(j))

\* C11: When resolve_ocr_text has run on a non-empty target and some region
\* has a similarity above 0, the region it selected is the first of those
\* with the greatest similarity, whatever the threshold; and when it
\* succeeds, the coordinates it returns are read from that region.
C11_SelectsFirstMaximum ==
  (matchCall.state = "returned" /\ matchCall.text # << >>) =>
    \A i \in 1..Len(matchCall.ocr_results) :
      (FirstOfMaximal(i) /\ Greater(Similarity(i), <<0, 1>>)) =>
        /\ matchCall.best = Some(matchCall.ocr_results[i])
        /\ matchCall.out.kind = "ok" =>
             /\ matchCall.out.x >= matchCall.ocr_results[i].x
             /\ matchCall.out.x <= matchCall.ocr_results[i].x + matchCall.ocr_results[i].width
             /\ matchCall.out.y >= matchCall.ocr_results[i].y
             /\ matchCall.out.y <= matchCall.ocr_results[i].y + matchCall.ocr_results[i].height

\* The first region reaches the threshold, the second is more similar, and
\* the second is selected.
C11_Witness ==
  /\ matchCall.state = "returned" /\ Len(matchCall.ocr_results) = 2
  /\ matchCall.threshold = 500 /\ matchCall.text # << >>
  /\ ~Greater(<<500, 1000>>, Similarity(1))
  /\ Greater(Similarity(2), Similarity(1))
  /\ matchCall.best = Some(matchCall.ocr_results[2])
  /\ matchCall.out.kind = "ok"

\* The call's list is empty, or its greatest similarity is below the threshold.
NothingReachesThreshold ==
  \A i \in 1..Len(matchCall.ocr_results) :
    Greater(<<matchCall.threshold, 1000>>, Similarity(i))

\* C12: For a non-empty target resolve_ocr_text fails with NoMatch exactly
\* when the list is empty or the greatest similarity is below the threshold,
\* and returns coordinates in every other case, thresholds and similarities
\* of 0 included.
C12_NoMatchExactly ==
  (matchCall.state = "returned" /\ matchCall.text # << >>) =>
    /\ (matchCall.out.kind = "error" /\ matchCall.out.err = "NoMatch")
         <=> NothingReachesThreshold
    /\ matchCall.out.kind = "ok" <=> ~NothingReachesThreshold

\* C13: When resolve_ocr_text succeeds it returns the centre of the selected
\* region's box with the halves rounded down: x - bbox.x is the greatest
\* integer with 2 * (x - bbox.x) <= bbox.width, and likewise y; for the one
\* region "OK" at x 10, y 20, width 40, height 10 and the target " Ok" it
\* returns x = 30, y = 25.
C13_CentreByFloor ==
  (matchCall.state = "returned" /\ matchCall.out.kind = "ok") =>
    /\ ~IsNone(matchCall.best)
    /\ LET bbox == The(matchCall.best)
           dx == matchCall.out.x - bbox.x
           dy == matchCall.out.y - bbox.y
       IN /\ 2 * dx <= bbox.width /\ bbox.width < 2 * dx + 2
          /\ 2 * dy <= bbox.height /\ bbox.height < 2 * dy + 2
    /\ (matchCall.ocr_results = << Region(<<"O", "K">>, 10, 20, 40, 10) >>)
         => (matchCall.out.x = 30 /\ matchCall.out.y = 25)

\* The selected box has an odd width and an odd height, and the call
\* returned the centre rounded down.
C13_Witness ==
  /\ matchCall.state = "returned" /\ matchCall.out.kind = "ok"
  /\ matchCall.best = Some(Region(<<"o", "k", " ">>, 200, 300, 41, 11))
  /\ matchCall.out.x = 220 /\ matchCall.out.y = 305

\* floor(norm / 1000 * dimension) clamped to [0, dimension - 1], in exact
\* arithmetic.
ExactPixel(norm, dimension) ==
  LET px == (norm * dimension) \div 1000
  IN IF px > dimension - 1 THEN dimension - 1 ELSE IF px < 0 THEN 0 ELSE px

\* C14: scale_norm_to_pixels returns, per axis, floor(norm / 1000 * dimension)
\* clamped to [0, dimension - 1]: the result lies inside the image,
\* scale(500, 500, 1000, 800) = (500, 400) and
\* scale(1000, 1000, 1000, 800) = (999, 799).
C14_ScaleIsFloorClamped ==
  scaleCall.state = "returned" =>
    /\ scaleCall.out[1] = ExactPixel(scaleCall.x_norm, scaleCall.width)
    /\ scaleCall.out[2] = ExactPixel(scaleCall.y_norm, scaleCall.height)
    /\ 0 <= scaleCall.out[1] /\ scaleCall.out[1] <= scaleCall.width - 1
    /\ 0 <= scaleCall.out[2] /\ scaleCall.out[2] <= scaleCall.height - 1

\* C15: The grid (cols, rows) _dynamic_preprocess chooses has
\* 1 <= cols * rows <= 12; it returns cols * rows tiles of 448 x 448 and
\* after them one thumbnail of the whole image exactly when cols * rows is
\* not 1; for a 1448 x 448 image cols > rows and there are cols * rows + 1
\* images.
C15_Tiling ==
  tileCall.state = "returned" =>
    LET cols == tileCall.grid[1]
        rows == tileCall.grid[2]
        images == tileCall.images
    IN /\ cols >= 1 /\ rows >= 1 /\ cols * rows <= 12
       /\ Len(images) = cols * rows + (IF cols * rows # 1 THEN 1 ELSE 0)
       /\ \A n \in 1..(cols * rows) :
            /\ images[n].kind = "tile"
            /\ images[n].box[3] - images[n].box[1] = 448
            /\ images[n].box[4] - images[n].box[2] = 448
            /\ images[n].box[1] >= 0 /\ images[n].box[3] <= 448 * cols
            /\ images[n].box[2] >= 0 /\ images[n].box[4] <= 448 * rows
       /\ \A n \in (cols * rows + 1)..Len(images) : images[n].kind = "thumbnail"
       /\ (tileCall.width = 1448 /\ tileCall.height = 448) =>
            (cols > rows /\ Len(images) = cols * rows + 1)

\* A 1448 x 448 image gave a 3 x 1 grid: three tiles and the thumbnail.
C15_Witness ==
  /\ tileCall.state = "returned" /\ tileCall.width = 1448 /\ tileCall.height = 448
  /\ tileCall.grid = <<3, 1>> /\ Len(tileCall.images) = 4
  /\ tileCall.images[4].kind = "thumbnail"

\* C16: When the text detector was not initialized (rapidocr cannot be
\* imported, or constructing the engine fails), the service is constructed
\* and serves: an ingest answers with a screenshot_id, a vision resolve is
\* never refused for the detector's sake, and a text-match resolve of a
\* session with a screenshot answers with the error EngineUnavailable.
DetectorFailed == ~OCR_AVAILABLE \/ (~boot.cuda /\ ~boot.cpu)

C16_DegradesGracefully ==
  (boot.state # "none" /\ DetectorFailed) =>
    /\ boot.state = "started"
    /\ response.op = "ingest" => (response.kind = "ok" /\ response.sid # "")
    /\ (response.op = "resolve" /\ response.method = "ocr") =>
         (response.kind = "error" /\ response.err \in {"NotFound", "EngineUnavailable"})
    /\ (response.op = "resolve" /\ response.method = "prediction"
          /\ response.kind = "error" /\ response.err = "EngineUnavailable") =>
         ~VISION_MODELS_AVAILABLE \/ loads > built

\* The same with the detector's module missing only.
C16_ModuleMissing ==
  (boot.state # "none" /\ ~OCR_AVAILABLE) =>
    /\ boot.state = "started"
    /\ response.op = "ingest" => (response.kind = "ok" /\ response.sid # "")
    /\ (response.op = "resolve" /\ response.method = "ocr") =>
         (response.kind = "error" /\ response.err \in {"NotFound", "EngineUnavailable"})
    /\ (response.op = "resolve" /\ response.method = "prediction"
          /\ response.kind = "error" /\ response.err = "EngineUnavailable") =>
         ~VISION_MODELS_AVAILABLE \/ loads > built

\* C17: A line that is not JSON is answered with the error ParseError and
\* a null id; a request (version "2.0") naming a method that is not
\* registered, with MethodNotFound and the request's id; a request whose
\* handler raised, with InternalError, the request's id and the exception's
\* text; a request whose handler returned, with a result and the request's
\* id.  Nothing sent has both a result and an error.
IsError(sent, id, code) ==
  /\ sent.id = id /\ IsNone(sent.result)
  /\ ~IsNone(sent.error) /\ The(sent.error).code = code

C17_TransportErrors ==
  rpcCall.state # "read" /\ rpcCall.state # "none" =>
    LET line == rpcCall.line
        request == line.kind = "object" /\ line.jsonrpc = Some("2.0")
        names == request /\ ~IsNone(line.method) /\ line.method # Some("")
        known == IF rpcCall.server = "grounding_service"
                 THEN {"status", "ingest_screenshot", "resolve"}
                 ELSE {"status", "snapshot", "act"}
    IN /\ line.kind = "invalid" =>
            /\ rpcCall.state = "sent"
            /\ IsError(The(rpcCall.sent), None, -32700)
       /\ (names /\ The(line.method) \notin known) =>
            /\ rpcCall.state = "sent"
            /\ IsError(The(rpcCall.sent), line.id, -32601)
       /\ rpcCall.outcome.kind = "raised" =>
            /\ rpcCall.state = "sent"
            /\ IsError(The(rpcCall.sent), line.id, -32603)
            /\ The(The(rpcCall.sent).error).message = rpcCall.outcome.text
       /\ rpcCall.outcome.kind = "returned" =>
            /\ rpcCall.state = "sent"
            /\ The(rpcCall.sent).id = line.id
            /\ ~IsNone(The(rpcCall.sent).result) /\ IsNone(The(rpcCall.sent).error)
       /\ rpcCall.state = "sent" =>
            ~(~IsNone(The(rpcCall.sent).result) /\ ~IsNone(The(rpcCall.sent).error))

\* Request "7" named the method nope and got MethodNotFound with id "7".
C17_Witness ==
  /\ rpcCall.state = "sent" /\ rpcCall.line.method = Some("nope")
  /\ rpcCall.line.id = Some("7")
  /\ IsError(The(rpcCall.sent), Some("7"), -32601)

\* C18: A resolve of a session with a screenshot that comes without the
\* parameter of its method is answered with the error InvalidArgument and
\* with no coordinates; for the vision method no model was constructed and
\* no inference lock taken.  (Every resolve of SpecLacks is such a resolve.)
C18_InvalidArgument ==
  /\ response.op = "resolve" =>
       /\ response.kind = "error"
       /\ response.err \in {"NotFound", "InvalidArgument"}
  /\ loads = 0 /\ built = 0 /\ vision_model = 0
  /\ \A m \in Calls : LockFree(locks[m])

\* What holds of those resolves: none is answered with coordinates, the
\* vision ones are answered with InvalidArgument, nothing is constructed or
\* locked.
C18_NoCoordinates ==
  /\ response.op = "resolve" =>
       /\ response.kind = "error"
       /\ response.method = "prediction" => response.err \in {"NotFound", "InvalidArgument"}
  /\ loads = 0 /\ built = 0 /\ vision_model = 0
  /\ \A m \in Calls : LockFree(locks[m])

StepsFor(k) ==
  \/ \E c \in Calls : calls[c].pc = "idle" /\ calls'[c] # calls[c]
                      /\ (calls'[c].key = k \/ (calls'[c] = DoneCall /\ response'.key = k))
  \/ \E c \in Calls : calls[c].pc # "idle" /\ calls[c].key = k /\ calls'[c] # calls[c]
  \/ \E t \in Calls : tasks[t].state = "pending" /\ tasks[t].key = k /\ tasks'[t] # tasks[t]

CacheOf(store, k) ==
  <<store[k].screenshot_id, store[k].screenshot_b64, store[k].ocr_results,
    store[k].ocr_event>>

C20_NoCrossSession ==
  [][\A k \in Keys : CacheOf(sessions', k) # CacheOf(sessions, k) => StepsFor(k)]_vars

\* Both sessions hold a screenshot, and the detection of one has completed
\* while the other's is pending.
C20_Witness ==
  /\ sessions["s1"].screenshot_b64 = "B" /\ sessions["s2"].screenshot_b64 = "B"
  /\ sessions["s1"].ocr_event /\ ~IsNone(sessions["s1"].ocr_results)
  /\ ~sessions["s2"].ocr_event /\ IsNone(sessions["s2"].ocr_results)

\* C21: The inference lock admits its waiters in the order in which they
\* started to wait.  Requests are numbered in arrival order and a vision
\* resolve reaches the lock in the step in which it arrives, so: while
\* request c waits for a model's lock, no request that arrived after c is
\* inside that model's inference, whatever the sessions of the two.
C21_FirstComeFirstServed ==
  \A c \in Calls, d \in Calls :
    (c < d /\ calls[c].pc = "gate" /\ calls[d].pc = "infer"
       /\ calls[c].model = calls[d].model) => FALSE

\* Two requests of different sessions wait for the lock, in arrival order,
\* and release() has resolved the future of the first.
C21_Witness ==
  /\ Len(locks[1].waiters) = 2 /\ locks[1].woken
  /\ locks[1].waiters[1] < locks[1].waiters[2]
  /\ calls[locks[1].waiters[1]].key # calls[locks[1].waiters[2]].key

\* C22: A vision resolve that names the model m is served by an instance
\* that was constructed for m: the instance whose lock the request waits
\* for or holds has the name the request resolved.
C22_ServedByNamedModel ==
  \A c \in Calls :
    calls[c].pc \in {"gate", "infer"} => model_names[calls[c].model] = calls[c].model_name

\* C23: The keys of the session store are the keys that were ingested: a
\* key has an entry in _sessions exactly when an ingest for it has run, so
\* no resolve adds an entry.
C23_EntriesByIngestOnly ==
  \A k \in Keys : sessions[k].present <=> latest[k].call # 0

\* C24: An answer with a point pattern gives the first point pattern's
\* (x, y), whatever bounding boxes it holds; an answer with bounding boxes
\* only gives the centre of the last one; an answer with neither gives no
\* prediction, and resolve fails with NoMatch.
KindAt(parts, kind) == {i \in 1..Len(parts) : Fragments[parts[i]].kind = kind}

Least(S) == CHOOSE i \in S : \A j \in S : i <= j
Greatest(S) == CHOOSE i \in S : \A j \in S : i >= j

C24_AnswerParsing ==
  parseCall.state = "resolved" =>
    LET points == KindAt(parseCall.parts, "point")
        bboxes == KindAt(parseCall.parts, "bbox")
    IN IF points # {}
       THEN LET p == Fragments[parseCall.parts[Least(points)]].nums
            IN /\ parseCall.point = Some(<<2 * p[1], 2 * p[2]>>)
               /\ parseCall.out.kind = "ok"
       ELSE IF bboxes # {}
       THEN LET b == Fragments[parseCall.parts[Greatest(bboxes)]].nums
            IN /\ parseCall.point = Some(<<b[1] + b[3], b[2] + b[4]>>)
               /\ parseCall.out.kind = "ok"
       ELSE /\ parseCall.point = None
            /\ parseCall.out.kind = "error" /\ parseCall.out.err = "NoMatch"

\* A bounding box in front of two points: the first point, (100, 900.5),
\* was used.
C24_Witness ==
  /\ parseCall.state = "resolved"
  /\ parseCall.parts = <<"B1", "P2", "P1">>
  /\ parseCall.point = Some(<<2000, 18010>>)
  /\ parseCall.out.kind = "ok"

\* C25: The grid chosen for an image is as close to the image's aspect
\* ratio as any grid of 1 to 12 tiles, and it has more tiles than another
\* grid that close only if the image's area exceeds half of
\* tile_size^2 * cols * rows.
Deviation(width, height, grid) == <<Abs(width * grid[2] - grid[1] * height), grid[2]>>

Grids == {g \in (1..12) \X (1..12) : g[1] * g[2] <= 12}

Closest(width, height) ==
  {g \in Grids : \A o \in Grids :
     Deviation(width, height, g)[1] * o[2] <= Deviation(width, height, o)[1] * g[2]}

C25_GridChoice ==
  tileCall.state = "returned" =>
    LET width == tileCall.width
        height == tileCall.height
        grid == tileCall.grid
    IN /\ grid \in Closest(width, height)
       /\ (\E g \in Closest(width, height) : g[1] * g[2] < grid[1] * grid[2])
            => 2 * width * height > 448 * 448 * grid[1] * grid[2]

\* C26: Every line that is not blank is answered with one response, whatever
\* it holds: text that is not JSON, a JSON value that is not an object, an
\* object without a valid version or method, a request whose handler raises.
C26_EveryLineAnswered ==
  (rpcCall.state \notin {"none", "read"} /\ rpcCall.line.kind # "blank") =>
    rpcCall.state = "sent" /\ ~IsNone(rpcCall.sent)

\* C27: main's loop handles one request at a time.  A request is read only
\* when every earlier one has been answered, so the handlers end in the
\* order of their requests and no two are in progress together; a step
\* taken while a handler is in progress is a step of that handler or of the
\* run_ocr task of an ingest that arrived no later.
InProgress(c) == calls[c].pc \notin {"idle", "done"}

ReadAfterAnswer ==
  \A c \in Calls : calls[c].pc # "idle" => \A d \in Calls : d < c => calls[d].pc = "done"

BesideHandler ==
  \A c \in Calls : InProgress(c) =>
    \/ \A d \in Calls \ {c} : calls'[d] = calls[d] /\ tasks'[d] = tasks[d]
    \/ /\ calls' = calls
       /\ \E t \in Calls :
            /\ t <= c /\ tasks[t].state = "pending" /\ tasks'[t].state = "done"
            /\ \A d \in Calls \ {t} : tasks'[d] = tasks[d]

====
